---- MODULE Spec2Model ----
(***************************************************************************)
(* biscuit-wasm: the wasm binding (src/src/lib.rs) over the biscuit token  *)
(* library.  The binding's own code (Authorizer, Biscuit, builders, keys)  *)
(* is translated from lib.rs.  The library it calls (signature chain,      *)
(* Datalog evaluation) has no source in the repository and is modelled     *)
(* from spec.md; those definitions carry the prefix lib_ or are the        *)
(* Datalog/crypto helpers of sections 3 and 4 of spec.md.                  *)
(***************************************************************************)
EXTENDS Integers, Sequences, FiniteSets, TLC

\* ------------------------------------------------------------- bounds
MaxFacts == 1
MaxRules == 1
MaxChecks == 1
MaxPolicies == 2
MaxAuthBlocks == 2
MaxBlocks == 3
MaxRng == 4

VARIABLES rng, tok, auth, policyLog, tokenLog, wire, req, tpb, ghost, last, builder, key, buf

vars == <<rng, tok, auth, policyLog, tokenLog, wire, req, tpb, ghost, last, builder, key, buf>>
keyVars == <<key, buf>>

\* ------------------------------------------------------ results, options
NoErr == [kind |-> "none", index |-> -1, checks |-> <<>>]
Error(k) == [kind |-> k, index |-> -1, checks |-> <<>>]
Ok(v) == [ok |-> TRUE, val |-> v, err |-> NoErr]
Err(e) == [ok |-> FALSE, val |-> <<>>, err |-> e]
None == <<>>
Some(x) == <<x>>

\* --------------------------------------------------------- Term model
Consts == {"alice", "bob", "x"}
Vars == {"$u"}
Pred(n, t) == [name |-> n, terms |-> t]
Query(b, e) == [body |-> b, exprs |-> e]
Constraint(v, o, c) == [var |-> v, op |-> o, val |-> c]

\* builder values: `missing` is the set of named parameters not yet set
BFact(p, m) == [fact |-> p, missing |-> m]
BRule(h, q, m) == [head |-> h, query |-> q, missing |-> m]
BCheck(qs, m) == [queries |-> qs, missing |-> m]
BPolicy(k, q, m) == [kind |-> k, query |-> q, missing |-> m]

Subst(t, s) == IF t \in Vars THEN s[t] ELSE t
Ground(p, s) == [name |-> p.name, terms |-> [i \in 1..Len(p.terms) |-> Subst(p.terms[i], s)]]
Holds(c, s) == IF c.op = "==" THEN s[c.var] = c.val ELSE s[c.var] # c.val

\* all variable bindings that unify the body against FS and satisfy the constraints
Bindings(q, FS) ==
  {s \in [Vars -> Consts] :
     /\ \A i \in 1..Len(q.body) : Ground(q.body[i], s) \in FS
     /\ \A i \in 1..Len(q.exprs) : Holds(q.exprs[i], s)}

\* --------------------------------------------------------------- keys
RootKey(i) == <<"root", i>>
ExtKey(i) == <<"ext", i>>
EphKey(n) == <<"eph", n>>
AttackerKey == <<"atk", 0>>
PublicOf(sk) == <<"ed25519">> \o sk
Sign(sk, msg) == [signer |-> PublicOf(sk), msg |-> msg]
Verify(pk, msg, sig) == sig.signer = pk /\ sig.msg = msg

\* ------------------------------------------------------ block content
Content(f, r, c, sc) == [facts |-> f, rules |-> r, checks |-> c, scope |-> sc]
Encode(c) == <<c.facts, c.rules, c.checks, c.scope>>
Decode(p) == [facts |-> p[1], rules |-> p[2], checks |-> p[3], scope |-> p[4]]

BlockMsg(data, ext, nk) ==
  [kind |-> "block", data |-> data, external |-> ext, next_key |-> nk, chain |-> <<>>]
SealMsg(blocks) ==
  [kind |-> "seal", data |-> <<>>, external |-> <<>>, next_key |-> <<>>,
   chain |-> [i \in 1..Len(blocks) |-> blocks[i].signature]]
ExternalMsg(data, prev) ==
  [kind |-> "external", data |-> data, external |-> <<>>, next_key |-> prev, chain |-> <<>>]

SignedBlock(data, nk, sig, ext) ==
  [data |-> data, next_key |-> nk, signature |-> sig, external_signature |-> ext]
NextSecret(sk) == [sealed |-> FALSE, secret |-> <<sk>>, signature |-> <<>>]
FinalSignature(sig) == [sealed |-> TRUE, secret |-> <<>>, signature |-> <<sig>>]

\* ------------------------------------------------- token chain (library)
LastBlock(t) == t.container.blocks[Len(t.container.blocks)]

lib_build(root, content, eph) ==
  LET data == Encode(content)
      nk == PublicOf(eph)
      blk == SignedBlock(data, nk, Sign(root, BlockMsg(data, <<>>, nk)), <<>>)
  IN Ok([blocks |-> <<content>>,
         container |-> [blocks |-> <<blk>>, proof |-> NextSecret(eph)]])

lib_append_with_keypair(t, eph, content) ==
  IF t.container.proof.sealed THEN Err(Error("AppendOnSealed"))
  ELSE LET data == Encode(content)
           nk == PublicOf(eph)
           sk == t.container.proof.secret[1]
           blk == SignedBlock(data, nk, Sign(sk, BlockMsg(data, <<>>, nk)), <<>>)
       IN Ok([blocks |-> Append(t.blocks, content),
              container |-> [blocks |-> Append(t.container.blocks, blk),
                             proof |-> NextSecret(eph)]])

lib_block_count(t) == Len(t.container.blocks)

lib_seal(t) ==
  IF t.container.proof.sealed THEN Err(Error("AlreadySealed"))
  ELSE Ok([t EXCEPT !.container.proof =
             FinalSignature(Sign(t.container.proof.secret[1], SealMsg(t.container.blocks)))])

\* the explicit walk over the block sequence, carrying the expected signing key
ExternalOk(b, expected) ==
  \A k \in 1..Len(b.external_signature) :
     Verify(b.external_signature[k].public_key, ExternalMsg(b.data, expected),
            b.external_signature[k].signature)
RECURSIVE VerifyBlocks(_, _, _)
VerifyBlocks(blocks, i, expected) ==
  IF i > Len(blocks) THEN TRUE
  ELSE /\ Verify(expected,
                 BlockMsg(blocks[i].data, blocks[i].external_signature, blocks[i].next_key),
                 blocks[i].signature)
       /\ (i > 1 => ExternalOk(blocks[i], expected))
       /\ (i = 1 => blocks[i].external_signature = <<>>)
       /\ VerifyBlocks(blocks, i + 1, blocks[i].next_key)
VerifyProof(blocks, proof) ==
  IF proof.sealed
  THEN /\ Len(proof.signature) = 1
       /\ Verify(blocks[Len(blocks)].next_key, SealMsg(blocks), proof.signature[1])
  ELSE /\ Len(proof.secret) = 1
       /\ PublicOf(proof.secret[1]) = blocks[Len(blocks)].next_key

\* wire format: version, block count, the blocks, the proof
WireBlock(b) == <<b.data, b.next_key, b.signature, b.external_signature>>
WireProof(p) == <<p.sealed, p.secret, p.signature>>
Bytes(w) == [i \in 1..Len(w) |-> <<"byte", w[i]>>]
Fields(data) == [i \in 1..Len(data) |-> data[i][2]]
lib_to_vec(t) ==
  Ok(Bytes(<<"v2", Len(t.container.blocks)>>
           \o [i \in 1..Len(t.container.blocks) |-> WireBlock(t.container.blocks[i])]
           \o <<WireProof(t.container.proof)>>))

ParseContainer(d) ==
  IF Len(d) < 4 THEN Err(Error("Format"))
  ELSE IF d[1] # "v2" THEN Err(Error("Version"))
  ELSE IF d[2] < 1 \/ Len(d) # d[2] + 3 THEN Err(Error("Format"))
  ELSE Ok([blocks |-> [i \in 1..d[2] |->
                         SignedBlock(d[i + 2][1], d[i + 2][2], d[i + 2][3], d[i + 2][4])],
           proof |-> [sealed |-> d[d[2] + 3][1], secret |-> d[d[2] + 3][2],
                      signature |-> d[d[2] + 3][3]]])

lib_from(data, root) ==
  IF \E i \in 1..Len(data) : data[i][1] # "byte" THEN Err(Error("Format"))
  ELSE LET c == ParseContainer(Fields(data))
       IN IF ~c.ok THEN c
          ELSE IF VerifyBlocks(c.val.blocks, 1, root) /\ VerifyProof(c.val.blocks, c.val.proof)
          THEN Ok([blocks |-> [i \in 1..Len(c.val.blocks) |-> Decode(c.val.blocks[i].data)],
                   container |-> c.val])
          ELSE Err(Error("Signature"))

\* URL-safe base 64 of a byte string, symbol by symbol
B64Encode(bytes) == [i \in 1..Len(bytes) |-> <<"b64", bytes[i]>>]
B64Decode(str) ==
  IF \A i \in 1..Len(str) : str[i][1] = "b64"
  THEN Ok([i \in 1..Len(str) |-> str[i][2]])
  ELSE Err(Error("Base64"))
lib_to_base64(t) == Ok(B64Encode(lib_to_vec(t).val))
lib_from_base64(str, root) ==
  LET d == B64Decode(str) IN IF d.ok THEN lib_from(d.val, root) ELSE Err(d.err)

lib_revocation_identifiers(t) ==
  [i \in 1..Len(t.container.blocks) |-> t.container.blocks[i].signature]
SourceOf(content) == <<"datalog", content.facts, content.rules, content.checks>>
lib_print_block_source(t, index) ==
  IF index < Len(t.blocks) THEN Ok(SourceOf(t.blocks[index + 1]))
  ELSE Err(Error("BlockNotFound"))

\* ------------------------------------------- third-party blocks (library)
lib_third_party_request(t) ==
  IF t.container.proof.sealed THEN Err(Error("AppendOnSealed"))
  ELSE Ok([previous_key |-> LastBlock(t).next_key])

lib_create_block(request, sk, content) ==
  Ok([payload |-> Encode(content),
      external_signature |->
        [signature |-> Sign(sk, ExternalMsg(Encode(content), request.previous_key)),
         public_key |-> PublicOf(sk)]])

lib_append_third_party(t, external_key, block, eph) ==
  IF t.container.proof.sealed THEN Err(Error("AppendOnSealed"))
  ELSE IF \/ block.external_signature.public_key # external_key
          \/ ~Verify(external_key, ExternalMsg(block.payload, LastBlock(t).next_key),
                     block.external_signature.signature)
  THEN Err(Error("Signature"))
  ELSE LET nk == PublicOf(eph)
           ext == <<block.external_signature>>
           sk == t.container.proof.secret[1]
           blk == SignedBlock(block.payload, nk,
                              Sign(sk, BlockMsg(block.payload, ext, nk)), ext)
       IN Ok([blocks |-> Append(t.blocks, Decode(block.payload)),
              container |-> [blocks |-> Append(t.container.blocks, blk),
                             proof |-> NextSecret(eph)]])


\* --------------------------------------------- Datalog authorizer (library)
BlockOrigin(i) == [kind |-> "block", id |-> i]
AuthorizerOrigin == [kind |-> "authorizer", id |-> 0]

\* a fact of origin o is visible from context ctx: its own context, an authorizer
\* fact, or a default-scope fact of an earlier block (the authorizer comes last)
Visible(o, ctx, blocks) ==
  \/ o = ctx
  \/ o.kind = "authorizer"
  \/ /\ o.kind = "block"
     /\ blocks[o.id + 1].scope = "default"
     /\ (ctx.kind = "authorizer" \/ o.id < ctx.id)

VisibleTo(F, ctx, blocks) == {g.fact : g \in {f \in F : Visible(f.origin, ctx, blocks)}}

lib_Authorizer_new == [blocks |-> <<>>, facts |-> <<>>, rules |-> <<>>, checks |-> <<>>, policies |-> <<>>]
lib_token_authorizer(t) == Ok([lib_Authorizer_new EXCEPT !.blocks = t.blocks])

\* add_fact / add_rule / add_check / add_policy of the library authorizer: an
\* unresolved named parameter is rejected when the item is added
lib_authorizer_add(a, kind, item) ==
  IF item.missing # {} THEN Err(Error("MissingParameters"))
  ELSE Ok([a EXCEPT ![kind] = Append(@, item)])

\* Assemble
WorldFacts(a) ==
  UNION {{[origin |-> BlockOrigin(i - 1), fact |-> a.blocks[i].facts[k].fact] :
            k \in 1..Len(a.blocks[i].facts)} : i \in 1..Len(a.blocks)}
  \cup {[origin |-> AuthorizerOrigin, fact |-> a.facts[k].fact] : k \in 1..Len(a.facts)}
WorldRules(a) ==
  UNION {{[origin |-> BlockOrigin(i - 1), rule |-> a.blocks[i].rules[k]] :
            k \in 1..Len(a.blocks[i].rules)} : i \in 1..Len(a.blocks)}
  \cup {[origin |-> AuthorizerOrigin, rule |-> a.rules[k]] : k \in 1..Len(a.rules)}

\* Saturate: apply every rule to the current fact set until nothing new appears
ApplyRules(a, F) ==
  F \cup UNION {{[origin |-> r.origin, fact |-> Ground(r.rule.head, s)] :
                   s \in Bindings(r.rule.query, VisibleTo(F, r.origin, a.blocks))} :
                r \in WorldRules(a)}
RECURSIVE Saturate(_, _)
Saturate(a, F) == LET G == ApplyRules(a, F) IN IF G = F THEN F ELSE Saturate(a, G)

\* Checks: every block's checks in block order, then the authorizer's
ChecksOfBlock(a, i) ==
  [k \in 1..Len(a.blocks[i].checks) |->
     [origin |-> BlockOrigin(i - 1), check_id |-> k - 1, check |-> a.blocks[i].checks[k]]]
RECURSIVE TokenChecks(_, _)
TokenChecks(a, i) ==
  IF i > Len(a.blocks) THEN <<>> ELSE ChecksOfBlock(a, i) \o TokenChecks(a, i + 1)
AuthorizerChecks(a) ==
  [k \in 1..Len(a.checks) |->
     [origin |-> AuthorizerOrigin, check_id |-> k - 1, check |-> a.checks[k]]]
AllChecks(a) == TokenChecks(a, 1) \o AuthorizerChecks(a)
CheckHolds(c, F, blocks) ==
  \E i \in 1..Len(c.check.queries) :
     Bindings(c.check.queries[i], VisibleTo(F, c.origin, blocks)) # {}

\* Policies: in order of addition, the first one with a binding decides
RECURSIVE MatchPolicy(_, _, _)
MatchPolicy(a, F, i) ==
  IF i > Len(a.policies) THEN Err(Error("NoMatchingPolicy"))
  ELSE IF Bindings(a.policies[i].query, VisibleTo(F, AuthorizerOrigin, a.blocks)) # {}
       THEN IF a.policies[i].kind = "allow" THEN Ok(i - 1)
            ELSE Err([kind |-> "Deny", index |-> i - 1, checks |-> <<>>])
       ELSE MatchPolicy(a, F, i + 1)

lib_authorize(a) ==
  LET F == Saturate(a, WorldFacts(a))
      failed == SelectSeq(AllChecks(a), LAMBDA c : ~CheckHolds(c, F, a.blocks))
  IN IF failed # <<>>
     THEN Err([kind |-> "FailedChecks", index |-> -1, checks |-> failed])
     ELSE MatchPolicy(a, F, 1)

\* parse_source of the library: a batch of statements, split by kind in source
\* order; one malformed statement fails the whole batch
StatementsOf(source, kind) ==
  LET sel == SelectSeq(source, LAMBDA st : st.kind = kind)
  IN [i \in 1..Len(sel) |-> sel[i].item]
lib_parse_source(source) ==
  IF \E i \in 1..Len(source) : source[i].kind = "malformed"
  THEN Err(Error("ParseError"))
  ELSE Ok([facts |-> StatementsOf(source, "fact"), rules |-> StatementsOf(source, "rule"),
           checks |-> StatementsOf(source, "check"),
           policies |-> StatementsOf(source, "policy")])

\* ------------------------------------------------ Authorizer (lib.rs 149-272)
\* every method is given as [self |-> the receiver after the call, ret |-> result]
Authorizer_default ==
  [token |-> None, facts |-> <<>>, rules |-> <<>>, checks |-> <<>>, policies |-> <<>>]

\* faulty variant: a token the authorizer already holds is kept
add_token_keeps_first(self, token) ==
  [self |-> IF self.token = None THEN [self EXCEPT !.token = Some(token)] ELSE self,
   ret |-> Ok(<<>>)]

add_token(self, token) == [self |-> [self EXCEPT !.token = Some(token)], ret |-> Ok(<<>>)]
add_fact(self, fact) == [self |-> [self EXCEPT !.facts = Append(@, fact)], ret |-> Ok(<<>>)]
add_rule(self, rule) == [self |-> [self EXCEPT !.rules = Append(@, rule)], ret |-> Ok(<<>>)]
add_check(self, check) == [self |-> [self EXCEPT !.checks = Append(@, check)], ret |-> Ok(<<>>)]
add_policy(self, policy) ==
  [self |-> [self EXCEPT !.policies = Append(@, policy)], ret |-> Ok(<<>>)]

\* faulty variant: statements are appended one by one until one fails to parse
RECURSIVE add_code_stepwise(_, _)
add_code_stepwise(self, source) ==
  IF source = <<>> THEN [self |-> self, ret |-> Ok(<<>>)]
  ELSE LET st == Head(source)
       IN IF st.kind = "malformed" THEN [self |-> self, ret |-> Err(Error("ParseError"))]
          ELSE add_code_stepwise(
                 [self EXCEPT !.facts = IF st.kind = "fact" THEN Append(@, st.item) ELSE @,
                              !.rules = IF st.kind = "rule" THEN Append(@, st.item) ELSE @,
                              !.checks = IF st.kind = "check" THEN Append(@, st.item) ELSE @,
                              !.policies = IF st.kind = "policy" THEN Append(@, st.item) ELSE @],
                 Tail(source))

add_code(self, source) ==
  LET source_result == lib_parse_source(source)
  IN IF ~source_result.ok THEN [self |-> self, ret |-> Err(source_result.err)]
     ELSE [self |-> [self EXCEPT !.facts = @ \o source_result.val.facts,
                                 !.rules = @ \o source_result.val.rules,
                                 !.checks = @ \o source_result.val.checks,
                                 !.policies = @ \o source_result.val.policies],
           ret |-> Ok(<<>>)]

\* the four loops of authorize: add each item in order, stop at the first error
RECURSIVE AddEach(_, _, _, _)
AddEach(r, kind, items, i) ==
  IF ~r.ok \/ i > Len(items) THEN r
  ELSE AddEach(lib_authorizer_add(r.val, kind, items[i]), kind, items, i + 1)

\* faulty variant: the token handed to add_token is not used
authorize_skips_token(self) ==
  LET a1 == AddEach(Ok(lib_Authorizer_new), "facts", self.facts, 1)
      a2 == AddEach(a1, "rules", self.rules, 1)
      a3 == AddEach(a2, "checks", self.checks, 1)
      a4 == AddEach(a3, "policies", self.policies, 1)
  IN [self |-> self, ret |-> IF a4.ok THEN lib_authorize(a4.val) ELSE Err(a4.err)]

\* faulty variant: the loop over the rules is missing
authorize_skips_rules(self) ==
  LET a0 == IF self.token # None THEN lib_token_authorizer(self.token[1])
            ELSE Ok(lib_Authorizer_new)
      a1 == AddEach(a0, "facts", self.facts, 1)
      a3 == AddEach(a1, "checks", self.checks, 1)
      a4 == AddEach(a3, "policies", self.policies, 1)
  IN [self |-> self, ret |-> IF a4.ok THEN lib_authorize(a4.val) ELSE Err(a4.err)]

\* faulty variant: the token's blocks are handed over without their scope
authorize_unscoped(self) ==
  LET a0 == IF self.token # None
            THEN Ok([lib_Authorizer_new EXCEPT
                       !.blocks = [i \in 1..Len(self.token[1].blocks) |->
                                     [self.token[1].blocks[i] EXCEPT !.scope = "default"]]])
            ELSE Ok(lib_Authorizer_new)
      a1 == AddEach(a0, "facts", self.facts, 1)
      a2 == AddEach(a1, "rules", self.rules, 1)
      a3 == AddEach(a2, "checks", self.checks, 1)
      a4 == AddEach(a3, "policies", self.policies, 1)
  IN [self |-> self, ret |-> IF a4.ok THEN lib_authorize(a4.val) ELSE Err(a4.err)]

\* faulty variant: the token is moved into the library authorizer and not kept
authorize_takes_token(self) ==
  LET a0 == IF self.token # None THEN lib_token_authorizer(self.token[1])
            ELSE Ok(lib_Authorizer_new)
      a1 == AddEach(a0, "facts", self.facts, 1)
      a2 == AddEach(a1, "rules", self.rules, 1)
      a3 == AddEach(a2, "checks", self.checks, 1)
      a4 == AddEach(a3, "policies", self.policies, 1)
  IN [self |-> [self EXCEPT !.token = None],
      ret |-> IF a4.ok THEN lib_authorize(a4.val) ELSE Err(a4.err)]

authorize(self) ==
  LET a0 == IF self.token # None THEN lib_token_authorizer(self.token[1])
            ELSE Ok(lib_Authorizer_new)
      a1 == AddEach(a0, "facts", self.facts, 1)
      a2 == AddEach(a1, "rules", self.rules, 1)
      a3 == AddEach(a2, "checks", self.checks, 1)
      a4 == AddEach(a3, "policies", self.policies, 1)
  IN [self |-> self, ret |-> IF a4.ok THEN lib_authorize(a4.val) ELSE Err(a4.err)]

\* ------------------------------------------------------- Biscuit (lib.rs 14-147)
KeyPair_new(n) == EphKey(n)

\* faulty variant: the first block is signed with a fresh key pair
build_with_fresh_key(self, root, n) ==
  [self |-> self, ret |-> lib_build(KeyPair_new(n), self, KeyPair_new(n))]

build(self, root, n) == [self |-> self, ret |-> lib_build(root, self, KeyPair_new(n))]

\* faulty variant: the new block starts a chain of its own
append_drops_chain(self, block, n) ==
  [self |-> self, ret |-> lib_build(KeyPair_new(n), block, KeyPair_new(n))]
\* faulty variant: the receiver itself is extended
append_in_place(self, block, n) ==
  LET r == lib_append_with_keypair(self, KeyPair_new(n), block)
  IN [self |-> IF r.ok THEN r.val ELSE self, ret |-> r]

append(self, block, n) ==
  LET keypair == KeyPair_new(n)
  IN [self |-> self, ret |-> lib_append_with_keypair(self, keypair, block)]

authorizer(self) ==
  [self |-> self, ret |-> Ok([Authorizer_default EXCEPT !.token = Some(self)])]

block_count(self) == lib_block_count(self)

\* faulty variant: a copy is returned without the final signature
seal_returns_copy(self) == [self |-> self, ret |-> Ok(self)]

seal(self) == [self |-> self, ret |-> lib_seal(self)]

\* faulty variant: the container is parsed and its signatures are not verified
from_bytes_unverified(data, root) ==
  IF \E i \in 1..Len(data) : data[i][1] # "byte" THEN Err(Error("Format"))
  ELSE LET c == ParseContainer(Fields(data))
       IN IF ~c.ok THEN c
          ELSE Ok([blocks |-> [i \in 1..Len(c.val.blocks) |-> Decode(c.val.blocks[i].data)],
                   container |-> c.val])
\* faulty variant: the text is handed to the byte deserializer
from_base64_as_bytes(data, root) == lib_from(data, root)

from_bytes(data, root) == lib_from(data, root)
from_base64(data, root) == lib_from_base64(data, root)
to_bytes(self) == lib_to_vec(self)
to_base64(self) == lib_to_base64(self)

\* faulty variant: only the identifier of the first block is returned
revocation_identifiers_first_only(self) ==
  LET ids == lib_revocation_identifiers(self)
  IN [i \in 1..1 |-> <<"b64", ids[i]>>]

revocation_identifiers(self) ==
  LET ids == lib_revocation_identifiers(self)
  IN [i \in 1..Len(ids) |-> <<"b64", ids[i]>>]

block_source(self, index) == lib_print_block_source(self, index)

third_party_request(self) == [self |-> self, ret |-> lib_third_party_request(self)]

\* faulty variant: the payload is appended as a block of the holder
append_third_party_unbound(self, external_key, block, n) ==
  [self |-> self,
   ret |-> lib_append_with_keypair(self, KeyPair_new(n), Decode(block.payload))]

\* faulty variant: the key is compared, the signature over the chain state is not
append_third_party_key_only(self, external_key, block, n) ==
  IF block.external_signature.public_key # external_key
  THEN [self |-> self, ret |-> Err(Error("Signature"))]
  ELSE [self |-> self,
        ret |-> lib_append_with_keypair(self, KeyPair_new(n), Decode(block.payload))]

append_third_party(self, external_key, block, n) ==
  [self |-> self, ret |-> lib_append_third_party(self, external_key, block, KeyPair_new(n))]

\* ---------------------------------------- ThirdPartyRequest (lib.rs 274-332)
create_block(self, private_key, block_builder) ==
  lib_create_block(self, private_key, block_builder)

\* ------------------- BiscuitBuilder, BlockBuilder (lib.rs 378-467, 469-543)
\* the two builders have the same methods, line for line; a builder is the
\* content of the block it will make
Builder_new == Content(<<>>, <<>>, <<>>, "default")

\* add_fact / add_rule / add_check of the library builders: an unresolved
\* named parameter is rejected when the item is added
lib_builder_add(b, kind, item) ==
  IF item.missing # {} THEN Err(Error("MissingParameters"))
  ELSE Ok([b EXCEPT ![kind] = Append(@, item)])

NoParams == [k \in {} |-> <<>>]
\* a named parameter of a parsed item takes the value given for it
SetParameters(item, params) ==
  IF "fact" \in DOMAIN item
  THEN [item EXCEPT !.missing = @ \ DOMAIN params,
                    !.fact.terms = [i \in 1..Len(@) |->
                                      IF @[i] = "{name}" /\ "name" \in DOMAIN params
                                      THEN params["name"] ELSE @[i]]]
  ELSE [item EXCEPT !.missing = @ \ DOMAIN params]
SetAll(items, params) == [i \in 1..Len(items) |-> SetParameters(items[i], params)]

\* add_code_with_params of the library builders: parse, set the parameters,
\* refuse a policy (a block holds none) and what is left unresolved, append
lib_add_code_with_params(b, source, params, scope_params) ==
  LET parsed == lib_parse_source(source)
  IN IF ~parsed.ok THEN Err(parsed.err)
     ELSE LET f == SetAll(parsed.val.facts, params)
              r == SetAll(parsed.val.rules, params)
              c == SetAll(parsed.val.checks, params)
          IN IF parsed.val.policies # <<>> THEN Err(Error("ParseError"))
             ELSE IF \E i \in 1..Len(f) : f[i].missing # {} THEN Err(Error("MissingParameters"))
             ELSE IF \E i \in 1..Len(r) : r[i].missing # {} THEN Err(Error("MissingParameters"))
             ELSE IF \E i \in 1..Len(c) : c[i].missing # {} THEN Err(Error("MissingParameters"))
             ELSE Ok([b EXCEPT !.facts = @ \o f, !.rules = @ \o r, !.checks = @ \o c])

\* values handed over from JavaScript, and what the two visitors make of them
JsValue(k, v) == [kind |-> k, val |-> v]
Term_deserialize(v) ==
  IF v.kind \in {"bool", "int", "string"} THEN Ok(v.val) ELSE Err(Error("InvalidType"))
ValidHex == {"aa", "bb"}
PublicKey_deserialize(v) ==
  IF v.kind # "string" THEN Err(Error("InvalidType"))
  ELSE IF v.val[1] # "ed25519/" THEN Err(Error("Format"))
  ELSE IF v.val[2] \notin ValidHex THEN Err(Error("Format"))
  ELSE Ok(<<"ed25519", "ext", v.val[2]>>)

\* every method is given as [self |-> the builder after the call, ret |-> the
\* result, aborted |-> the call ended in a panic and returned nothing]
Returned(self, r) ==
  [self |-> IF r.ok THEN r.val ELSE self,
   ret |-> IF r.ok THEN Ok(<<>>) ELSE r, aborted |-> FALSE]
Panicked(self) == [self |-> self, ret |-> Err(Error("Panic")), aborted |-> TRUE]

builder_add_fact(self, fact) == Returned(self, lib_builder_add(self, "facts", fact))
builder_add_rule(self, rule) == Returned(self, lib_builder_add(self, "rules", rule))
builder_add_check(self, check) == Returned(self, lib_builder_add(self, "checks", check))
builder_add_code(self, source) ==
  Returned(self, lib_add_code_with_params(self, source, NoParams, NoParams))

add_code_with_parameters(self, source, parameters, scope_parameters) ==
  IF \E k \in DOMAIN parameters : ~Term_deserialize(parameters[k]).ok
  THEN Panicked(self)
  ELSE IF \E k \in DOMAIN scope_parameters : ~PublicKey_deserialize(scope_parameters[k]).ok
  THEN Panicked(self)
  ELSE LET terms == [k \in DOMAIN parameters |-> Term_deserialize(parameters[k]).val]
           keys == [k \in DOMAIN scope_parameters |->
                      PublicKey_deserialize(scope_parameters[k]).val]
       IN Returned(self, lib_add_code_with_params(self, source, terms, keys))

\* -------------------------------------------- ThirdPartyBlock (lib.rs 334-376)
\* the library's messages carry no type tag on the wire: bytes of a block handed
\* to the request decoder are either refused or misread as a request, depending
\* on the bytes (misread)
lib_block_serialize(b) ==
  Ok(Bytes(<<"contents", b.payload, b.external_signature>>))
lib_block_serialize_base64(b) == Ok(B64Encode(lib_block_serialize(b).val))
lib_request_deserialize(data, misread) ==
  IF \E i \in 1..Len(data) : data[i][1] # "byte" THEN Err(Error("Format"))
  ELSE LET d == Fields(data)
       IN IF Len(d) = 2 /\ d[1] = "request" THEN Ok([previous_key |-> d[2]])
          ELSE IF misread /\ Len(d) >= 2 THEN Ok([previous_key |-> <<"misread", d[2]>>])
          ELSE Err(Error("Format"))
lib_request_deserialize_base64(str, misread) ==
  LET d == B64Decode(str)
  IN IF d.ok THEN lib_request_deserialize(d.val, misread) ELSE Err(d.err)

ThirdPartyBlock_to_bytes(self) == lib_block_serialize(self)
ThirdPartyBlock_to_base64(self) == lib_block_serialize_base64(self)
ThirdPartyBlock_from_bytes(data, misread) == lib_request_deserialize(data, misread)
ThirdPartyBlock_from_base64(data, misread) == lib_request_deserialize_base64(data, misread)

\* ------------------------------- PublicKey, PrivateKey (lib.rs 711-846)
\* a key is 32 bytes; byte i of key k is written <<k, i>>
KeyLen == 32
lib_key_to_bytes(k) == [i \in 1..KeyLen |-> <<k, i>>]
lib_key_from_bytes(data) ==
  IF Len(data) # KeyLen
  THEN Err([Error("InvalidKeySize") EXCEPT !.index = Len(data)])
  ELSE IF \E i \in 1..KeyLen : data[i] # <<data[1][1], i>> THEN Err(Error("InvalidKey"))
  ELSE Ok(data[1][1])

\* faulty variant: as many bytes as fit are written, whatever the buffer's size
to_bytes_truncating(self, out) ==
  [out |-> [i \in 1..Len(out) |-> IF i <= KeyLen THEN lib_key_to_bytes(self)[i] ELSE out[i]],
   ret |-> Ok(<<>>)]

\* toBytes is given as [out |-> the buffer after the call, ret |-> the result]
PublicKey_to_bytes(self, out) ==
  IF Len(out) # 32
  THEN [out |-> out, ret |-> Err([Error("InvalidKeySize") EXCEPT !.index = Len(out)])]
  ELSE [out |-> lib_key_to_bytes(self), ret |-> Ok(<<>>)]
PrivateKey_to_bytes(self, out) ==
  IF Len(out) # 32
  THEN [out |-> out, ret |-> Err([Error("InvalidKeySize") EXCEPT !.index = Len(out)])]
  ELSE [out |-> lib_key_to_bytes(self), ret |-> Ok(<<>>)]
PublicKey_from_bytes(data) == lib_key_from_bytes(data)
PrivateKey_from_bytes(data) == lib_key_from_bytes(data)
KeyPair_public(self) == PublicOf(self)
KeyPair_private(self) == self

\* --------------------------------------------------------------- inputs
F_user == BFact(Pred("user", <<"alice">>), {})
F_admin == BFact(Pred("admin_user", <<"alice">>), {})
F_flag == BFact(Pred("flag", <<"x">>), {})
\* user({name}) with the parameter `name` not set
F_param == BFact(Pred("user", <<"{name}">>), {"name"})
R_is_admin ==
  BRule(Pred("is_admin", <<"$u">>), Query(<<Pred("admin_user", <<"$u">>)>>, <<>>), {})
R_admin_user ==
  BRule(Pred("admin_user", <<"$u">>), Query(<<Pred("user", <<"$u">>)>>, <<>>), {})
C_is_admin == BCheck(<<Query(<<Pred("is_admin", <<"alice">>)>>, <<>>)>>, {})
\* check if user($u), $u != "bob" or flag("x")
C_user ==
  BCheck(<<Query(<<Pred("user", <<"$u">>)>>, <<Constraint("$u", "!=", "bob")>>),
           Query(<<Pred("flag", <<"x">>)>>, <<>>)>>, {})
P_deny_flag == BPolicy("deny", Query(<<Pred("flag", <<"x">>)>>, <<>>), {})
P_allow == BPolicy("allow", Query(<<>>, <<>>), {})
P_allow_admin == BPolicy("allow", Query(<<Pred("is_admin", <<"$u">>)>>, <<>>), {})

FactMenu == {F_user, F_flag, F_param}
RuleMenu == {R_is_admin, R_admin_user}
CheckMenu == {C_is_admin, C_user}
PolicyMenu == {P_deny_flag, P_allow, P_allow_admin}

Stmt(k, x) == [kind |-> k, item |-> x]
SourceMenu ==
  {<<Stmt("policy", P_deny_flag), Stmt("policy", P_allow)>>,
   <<Stmt("check", C_is_admin), Stmt("fact", F_user), Stmt("policy", P_allow_admin)>>,
   <<Stmt("fact", F_user), Stmt("malformed", F_user)>>}

B_admin == Content(<<F_admin>>, <<R_is_admin>>, <<>>, "default")
B_local == Content(<<F_admin>>, <<>>, <<>>, "local")
B_check == Content(<<>>, <<>>, <<C_is_admin>>, "default")
B_check_user == Content(<<>>, <<>>, <<C_user>>, "default")
BlockMenu == {B_admin, B_local, B_check, B_check_user}
ChecksOnly(b) == b.facts = <<>> /\ b.rules = <<>>

\* ----------------------------------------------------------------- state
Last(op, ret, before, after, aux) ==
  [op |-> op, ret |-> ret, before |-> before, after |-> after, aux |-> aux]

\* history kept beside the program state: how the token, the serialized bytes and
\* the third-party request and block came about
NoLineage == [root |-> 0, appends |-> 0, third |-> 0, sealedAt |-> 0, fromWire |-> FALSE]
Ghost0 ==
  [tok |-> NoLineage, wire |-> NoLineage, wireSrc |-> None, tampered |-> FALSE,
   reqState |-> None, tpbState |-> None]

Init ==
  /\ rng = 0
  /\ tok = None
  /\ auth = Authorizer_default
  /\ policyLog = <<>>
  /\ tokenLog = <<>>
  /\ wire = None
  /\ req = None
  /\ tpb = None
  /\ ghost = Ghost0
  /\ last = Last("init", Ok(<<>>), <<>>, <<>>, <<>>)
  /\ builder = Builder_new
  /\ key = None
  /\ buf = None

chainVars == <<wire, req, tpb, ghost>>
authVars == <<auth, policyLog, tokenLog>>

\* ------------------------------------------------- authorizer operations
\* BiscuitBuilder.build with the first root key
AuthBuild(content) ==
  /\ last.op # "authorizeAttenuated"
  /\ tok = None
  /\ auth = Authorizer_default
  /\ LET r == build(content, RootKey(1), rng)
     IN /\ tok' = Some(r.ret.val)
        /\ last' = Last("build", r.ret, content, r.self, <<>>)
  /\ rng' = rng + 1
  /\ UNCHANGED <<builder, keyVars, auth, policyLog, tokenLog, chainVars>>

AuthAppend(content) ==
  /\ last.op # "authorizeAttenuated"
  /\ tok # None
  /\ auth = Authorizer_default
  /\ block_count(tok[1]) < MaxAuthBlocks
  /\ LET r == append(tok[1], content, rng)
     IN /\ tok' = IF r.ret.ok THEN Some(r.ret.val) ELSE tok
        /\ last' = Last("appendBlock", r.ret, tok[1], r.self, <<>>)
  /\ rng' = rng + 1
  /\ UNCHANGED <<builder, keyVars, auth, policyLog, tokenLog, chainVars>>

NewAuthorizer ==
  /\ last.op # "authorizeAttenuated"
  /\ auth # Authorizer_default
  /\ auth' = Authorizer_default
  /\ policyLog' = <<>>
  /\ tokenLog' = <<>>
  /\ last' = Last("new", Ok(<<>>), <<>>, <<>>, <<>>)
  /\ UNCHANGED <<builder, keyVars, rng, tok, chainVars>>

GetAuthorizer ==
  /\ last.op # "authorizeAttenuated"
  /\ tok # None
  /\ LET r == authorizer(tok[1])
     IN /\ auth' = r.ret.val
        /\ last' = Last("getAuthorizer", Ok(<<>>), tok[1], r.self, <<>>)
  /\ policyLog' = <<>>
  /\ tokenLog' = <<tok[1]>>
  /\ UNCHANGED <<builder, keyVars, rng, tok, chainVars>>

AddToken ==
  /\ last.op # "authorizeAttenuated"
  /\ tok # None
  /\ auth.token # tok
  /\ LET r == add_token(auth, tok[1])
     IN /\ auth' = r.self
        /\ last' = Last("addToken", r.ret, auth, r.self, tok[1])
  /\ tokenLog' = Append(tokenLog, tok[1])
  /\ UNCHANGED <<builder, keyVars, rng, tok, policyLog, chainVars>>

AddFact(fact) ==
  /\ last.op # "authorizeAttenuated"
  /\ Len(auth.facts) < MaxFacts
  /\ LET r == add_fact(auth, fact)
     IN /\ auth' = r.self
        /\ last' = Last("addFact", r.ret, <<>>, <<>>, <<>>)
  /\ UNCHANGED <<builder, keyVars, rng, tok, policyLog, tokenLog, chainVars>>

AddRule(rule) ==
  /\ last.op # "authorizeAttenuated"
  /\ Len(auth.rules) < MaxRules
  /\ LET r == add_rule(auth, rule)
     IN /\ auth' = r.self
        /\ last' = Last("addRule", r.ret, <<>>, <<>>, <<>>)
  /\ UNCHANGED <<builder, keyVars, rng, tok, policyLog, tokenLog, chainVars>>

AddCheck(check) ==
  /\ last.op # "authorizeAttenuated"
  /\ Len(auth.checks) < MaxChecks
  /\ LET r == add_check(auth, check)
     IN /\ auth' = r.self
        /\ last' = Last("addCheck", r.ret, <<>>, <<>>, <<>>)
  /\ UNCHANGED <<builder, keyVars, rng, tok, policyLog, tokenLog, chainVars>>

AddPolicy(policy) ==
  /\ last.op # "authorizeAttenuated"
  /\ Len(auth.policies) < MaxPolicies
  /\ LET r == add_policy(auth, policy)
     IN /\ auth' = r.self
        /\ last' = Last("addPolicy", r.ret, <<>>, <<>>, <<>>)
  /\ policyLog' = Append(policyLog, policy)
  /\ UNCHANGED <<builder, keyVars, rng, tok, tokenLog, chainVars>>

CountOf(source, kind) == Len(SelectSeq(source, LAMBDA st : st.kind = kind))
AddCode(source) ==
  /\ last.op # "authorizeAttenuated"
  /\ Len(auth.facts) + CountOf(source, "fact") <= MaxFacts
  /\ Len(auth.rules) + CountOf(source, "rule") <= MaxRules
  /\ Len(auth.checks) + CountOf(source, "check") <= MaxChecks
  /\ Len(auth.policies) + CountOf(source, "policy") <= MaxPolicies
  /\ LET r == add_code(auth, source)
     IN /\ auth' = r.self
        /\ last' = Last("addCode", r.ret, auth, r.self, source)
        /\ policyLog' = IF r.ret.ok
                        THEN policyLog \o StatementsOf(source, "policy")
                        ELSE policyLog
  /\ UNCHANGED <<builder, keyVars, rng, tok, tokenLog, chainVars>>

Authorize ==
  /\ last.op # "authorizeAttenuated"
  /\ LET r == authorize(auth)
     IN /\ auth' = r.self
        /\ last' = Last("authorize", r.ret, auth, r.self, <<>>)
  /\ UNCHANGED <<builder, keyVars, rng, tok, policyLog, tokenLog, chainVars>>

\* authorize under the current configuration, once with the authorizer's token T
\* and once with appendBlock(T, block) in its place
AuthorizeAttenuated(block) ==
  /\ last.op # "authorizeAttenuated"
  /\ tok # None
  /\ auth.token = tok
  /\ block_count(tok[1]) <= MaxAuthBlocks
  /\ LET base == authorize(auth)
         t2 == append(tok[1], block, rng)
     IN /\ t2.ret.ok
        /\ last' = Last("authorizeAttenuated",
                        authorize(add_token(base.self, t2.ret.val).self).ret,
                        base.ret, t2.ret.val, block)
  /\ rng' = rng + 1
  /\ UNCHANGED <<builder, keyVars, tok, auth, policyLog, tokenLog, chainVars>>

\* the comparison of the two tokens is the last step of a run
NextAuth ==
  \/ \E c \in BlockMenu : AuthBuild(c) \/ AuthAppend(c)
  \/ \E c \in {b \in BlockMenu : ChecksOnly(b)} : AuthorizeAttenuated(c)
  \/ NewAuthorizer
  \/ GetAuthorizer
  \/ AddToken
  \/ \E f \in FactMenu : AddFact(f)
  \/ \E r \in RuleMenu : AddRule(r)
  \/ \E c \in CheckMenu : AddCheck(c)
  \/ \E p \in PolicyMenu : AddPolicy(p)
  \/ \E s \in SourceMenu : AddCode(s)
  \/ Authorize

SpecAuth == Init /\ [][NextAuth]_vars

\* ------------------------------------------------- section 4.4, restated
\* the universe of an authorizer as section 4.4 step 1 assembles it
Universe(a) ==
  [blocks |-> IF a.token = None THEN <<>> ELSE a.token[1].blocks,
   facts |-> a.facts, rules |-> a.rules, checks |-> a.checks, policies |-> a.policies]
Saturated(a) == Saturate(Universe(a), WorldFacts(Universe(a)))
FailingChecks(a) ==
  {c \in {AllChecks(Universe(a))[i] : i \in 1..Len(AllChecks(Universe(a)))} :
     ~CheckHolds(c, Saturated(a), Universe(a).blocks)}
PolicyMatches(a, p) ==
  Bindings(p.query, VisibleTo(Saturated(a), AuthorizerOrigin, Universe(a).blocks)) # {}
Resolved(a) ==
  /\ \A i \in 1..Len(a.facts) : a.facts[i].missing = {}
  /\ \A i \in 1..Len(a.rules) : a.rules[i].missing = {}
  /\ \A i \in 1..Len(a.checks) : a.checks[i].missing = {}
  /\ \A i \in 1..Len(a.policies) : a.policies[i].missing = {}

\* the outcome the policies, in the order `log`, decide for authorizer a
DecidedBy(a, log, ret) ==
  LET M == {i \in 1..Len(log) : PolicyMatches(a, log[i])}
  IN IF M = {} THEN ~ret.ok /\ ret.err.kind = "NoMatchingPolicy"
     ELSE LET i == CHOOSE k \in M : \A j \in M : k <= j
          IN IF log[i].kind = "allow" THEN ret.ok /\ ret.val = i - 1
             ELSE ~ret.ok /\ ret.err.kind = "Deny" /\ ret.err.index = i - 1

\* C1: when every check holds, authorize decides by the policies in the order
\* they were added through addPolicy and addCode: success with the index of the
\* first matching policy if it allows, a deny error with that index if it
\* denies, "no policy matched" if none matches.
C1_PolicyOrder ==
  (last.op = "authorize" /\ FailingChecks(last.before) = {})
    => DecidedBy(last.before, policyLog, last.ret)

\* the same, for an authorizer all of whose items have their parameters set
C1_PolicyOrderResolved ==
  (last.op = "authorize" /\ FailingChecks(last.before) = {} /\ Resolved(last.before))
    => DecidedBy(last.before, policyLog, last.ret)

\* C2: authorize never returns success while some check, of a token block or of
\* the authorizer, has no clause with a binding in the saturated fact set; a
\* failing check makes it fail with a failed-checks error even when an allow
\* policy would match, and policies decide only once every check passed.
C2_ChecksBeforePolicies ==
  (last.op = "authorize" /\ FailingChecks(last.before) # {})
    => (~last.ret.ok /\ last.ret.err.kind = "FailedChecks")

\* the safety half of C2 alone: success only when no check fails
C2_NeverSuccessWithFailingCheck ==
  (last.op = "authorize" /\ last.ret.ok) => FailingChecks(last.before) = {}

\* C2 for an authorizer all of whose items have their parameters set
C2_ChecksBeforePoliciesResolved ==
  (last.op = "authorize" /\ FailingChecks(last.before) # {} /\ Resolved(last.before))
    => (~last.ret.ok /\ last.ret.err.kind = "FailedChecks")

\* C3: a failed-checks error lists every failing check with its origin (token
\* block or authorizer), lists each once, and lists no check that holds.
Location(c) == [origin |-> c.origin, check_id |-> c.check_id]
C3_AllFailingChecksReported ==
  (last.op = "authorize" /\ ~last.ret.ok /\ last.ret.err.kind = "FailedChecks")
    => /\ {Location(last.ret.err.checks[i]) : i \in 1..Len(last.ret.err.checks)}
            = {Location(c) : c \in FailingChecks(last.before)}
       /\ Len(last.ret.err.checks) = Cardinality(FailingChecks(last.before))

\* two checks of different origin fail and are both reported, a third one holds
C3_Witness ==
  /\ last.op = "authorize"
  /\ last.ret.err.kind = "FailedChecks"
  /\ Len(last.ret.err.checks) >= 2
  /\ \E i, j \in 1..Len(last.ret.err.checks) :
        /\ last.ret.err.checks[i].origin.kind = "block"
        /\ last.ret.err.checks[j].origin.kind = "authorizer"
  /\ Len(AllChecks(Universe(last.before))) > Len(last.ret.err.checks)

\* C4: attenuation only narrows authority: when authorize succeeds for
\* appendBlock(T, B), B holding only checks, it succeeds for T under the same
\* configuration with the same policy index.
C4_AttenuationNarrows ==
  (last.op = "authorizeAttenuated" /\ ChecksOnly(last.aux) /\ last.ret.ok)
    => (last.before.ok /\ last.before.val = last.ret.val)

\* both directions happen: the attenuated token is refused where T is accepted,
\* and accepted where T is accepted
C4_Witness ==
  /\ last.op = "authorizeAttenuated"
  /\ ChecksOnly(last.aux)
  /\ last.ret.ok
  /\ last.before.ok
  /\ Len(last.after.blocks) >= 2
C4_WitnessNarrowed ==
  /\ last.op = "authorizeAttenuated"
  /\ ChecksOnly(last.aux)
  /\ ~last.ret.ok
  /\ last.before.ok

\* ------------------------------------------------------ chain operations
RootIds == {1, 2}
ExtIds == {1, 2}
ChainMenu == {B_admin, B_check}

Build(root, content) ==
  /\ rng < MaxRng
  /\ LET r == build(content, RootKey(root), rng)
     IN /\ tok' = Some(r.ret.val)
        /\ last' = Last("build", r.ret, content, r.self, root)
  /\ ghost' = [ghost EXCEPT !.tok = [NoLineage EXCEPT !.root = root]]
  /\ rng' = rng + 1
  /\ UNCHANGED <<builder, keyVars, authVars, wire, req, tpb>>

AppendBlock(content) ==
  /\ tok # None
  /\ block_count(tok[1]) < MaxBlocks
  /\ rng < MaxRng
  /\ LET r == append(tok[1], content, rng)
     IN /\ tok' = IF r.ret.ok THEN Some(r.ret.val) ELSE Some(r.self)
        /\ last' = Last("appendBlock", r.ret, tok[1], r.self, ghost.tok)
        /\ ghost' = IF r.ret.ok THEN [ghost EXCEPT !.tok.appends = @ + 1] ELSE ghost
  /\ rng' = rng + 1
  /\ UNCHANGED <<builder, keyVars, authVars, wire, req, tpb>>

SealToken ==
  /\ tok # None
  /\ LET r == seal(tok[1])
     IN /\ tok' = IF r.ret.ok THEN Some(r.ret.val) ELSE Some(r.self)
        /\ last' = Last("sealToken", r.ret, tok[1], r.self, ghost.tok)
        /\ ghost' = IF r.ret.ok
                    THEN [ghost EXCEPT !.tok.sealedAt = block_count(tok[1])]
                    ELSE ghost
  /\ UNCHANGED <<builder, keyVars, rng, authVars, wire, req, tpb>>

InspectAuthorizer ==
  /\ tok # None
  /\ last.op # "getAuthorizer"
  /\ LET r == authorizer(tok[1])
     IN /\ tok' = Some(r.self)
        /\ last' = Last("getAuthorizer", Ok(<<>>), tok[1], r.self, r.ret.val.token)
  /\ UNCHANGED <<builder, keyVars, rng, authVars, chainVars>>

Serialize(enc) ==
  /\ tok # None
  /\ wire = None
  /\ LET r == IF enc = "bytes" THEN to_bytes(tok[1]) ELSE to_base64(tok[1])
     IN /\ wire' = Some([enc |-> enc, data |-> r.val])
        /\ last' = Last(IF enc = "bytes" THEN "toBytes" ELSE "toBase64",
                        Ok(<<>>), tok[1], tok[1], <<>>)
  /\ ghost' = [ghost EXCEPT !.wire = ghost.tok, !.wireSrc = tok, !.tampered = FALSE]
  /\ UNCHANGED <<builder, keyVars, rng, tok, authVars, req, tpb>>

\* what someone holding the bytes, and no key of the chain, can do to them
Tampered(w, kind, i, content) ==
  CASE kind = "version" -> [w EXCEPT ![1] = "v9"]
    [] kind = "count" -> [w EXCEPT ![2] = @ + 1]
    [] kind = "data" -> [w EXCEPT ![i + 2] = <<Encode(content), @[2], @[3], @[4]>>]
    [] kind = "signature" ->
         [w EXCEPT ![i + 2] = <<@[1], @[2], Sign(AttackerKey, @[3].msg), @[4]>>]
    [] kind = "next_key" -> [w EXCEPT ![i + 2] = <<@[1], PublicOf(AttackerKey), @[3], @[4]>>]
    [] kind = "truncate" ->
         <<w[1], w[2] - 1>> \o SubSeq(w, 3, w[2] + 1) \o <<w[w[2] + 3]>>
    [] kind = "proof" -> [w EXCEPT ![w[2] + 3] = WireProof(NextSecret(AttackerKey))]
TamperKinds == {"version", "count", "data", "signature", "next_key", "truncate", "proof"}

Tamper(kind, i, content) ==
  /\ wire # None
  /\ ~ghost.tampered
  /\ LET w == Fields(IF wire[1].enc = "bytes" THEN wire[1].data
                       ELSE B64Decode(wire[1].data).val)
         t == Tampered(w, kind, i, content)
     IN /\ i <= w[2]
        /\ kind = "truncate" => w[2] >= 2
        /\ t # w
        /\ wire' = Some([enc |-> wire[1].enc,
                         data |-> IF wire[1].enc = "bytes" THEN Bytes(t)
                                  ELSE B64Encode(Bytes(t))])
  /\ ghost' = [ghost EXCEPT !.tampered = TRUE]
  /\ last' = Last("tamper", Ok(<<>>), <<>>, <<>>, kind)
  /\ UNCHANGED <<builder, keyVars, rng, tok, authVars, req, tpb>>

Deserialize(root) ==
  /\ wire # None
  /\ LET r == IF wire[1].enc = "bytes" THEN from_bytes(wire[1].data, PublicOf(RootKey(root)))
              ELSE from_base64(wire[1].data, PublicOf(RootKey(root)))
     IN /\ tok' = IF r.ok THEN Some(r.val) ELSE tok
        /\ last' = Last(IF wire[1].enc = "bytes" THEN "fromBytes" ELSE "fromBase64",
                        r, wire[1], ghost, root)
        /\ ghost' = [ghost EXCEPT !.tok = IF r.ok THEN [ghost.wire EXCEPT !.fromWire = TRUE]
                                         ELSE @,
                                  !.wire = NoLineage, !.wireSrc = None,
                                  !.tampered = FALSE]
  /\ wire' = None
  /\ UNCHANGED <<builder, keyVars, rng, authVars, req, tpb>>

GetThirdPartyRequest ==
  /\ tok # None
  /\ req = None
  /\ tpb = None
  /\ LET r == third_party_request(tok[1])
     IN /\ tok' = Some(r.self)
        /\ req' = IF r.ret.ok THEN Some(r.ret.val) ELSE req
        /\ last' = Last("getThirdPartyRequest", r.ret, tok[1], r.self, <<>>)
        /\ ghost' = IF r.ret.ok
                    THEN [ghost EXCEPT !.reqState =
                                       Some([state |-> LastBlock(tok[1]).next_key,
                                             lineage |-> ghost.tok])]
                    ELSE ghost
  /\ UNCHANGED <<builder, keyVars, rng, authVars, wire, tpb>>

CreateBlock(i, content) ==
  /\ req # None
  /\ LET r == create_block(req[1], ExtKey(i), content)
     IN /\ tpb' = Some(r.val)
        /\ last' = Last("createBlock", r, req[1], <<>>, i)
  /\ req' = None
  /\ ghost' = [ghost EXCEPT !.tpbState = ghost.reqState, !.reqState = None]
  /\ UNCHANGED <<builder, keyVars, rng, tok, authVars, wire>>

AppendThirdPartyBlock(i) ==
  /\ tok # None
  /\ tpb # None
  /\ block_count(tok[1]) < MaxBlocks
  /\ rng < MaxRng
  /\ LET r == append_third_party(tok[1], PublicOf(ExtKey(i)), tpb[1], rng)
     IN /\ tok' = IF r.ret.ok THEN Some(r.ret.val) ELSE Some(r.self)
        /\ last' = Last("appendThirdPartyBlock", r.ret, tok[1], r.self,
                        [lineage |-> ghost.tok, bound |-> ghost.tpbState, block |-> tpb[1],
                         key |-> PublicOf(ExtKey(i))])
        /\ ghost' = [ghost EXCEPT !.tok.third = IF r.ret.ok THEN @ + 1 ELSE @,
                                  !.tpbState = None]
  /\ tpb' = None
  /\ rng' = rng + 1
  /\ UNCHANGED <<builder, keyVars, authVars, wire, req>>

\* serialization, tampering and verification of one token at a time: the token
\* is built once, and is not changed while its bytes or a request are outstanding
Quiet == wire = None /\ req = None /\ tpb = None
NextChain ==
  \/ tok = None /\ \E k \in RootIds, c \in ChainMenu : Build(k, c)
  \/ Quiet /\ \E c \in ChainMenu : AppendBlock(c)
  \/ Quiet /\ SealToken
  \/ Quiet /\ InspectAuthorizer
  \/ Quiet /\ \E e \in {"bytes", "base64"} : Serialize(e)
  \/ \E k \in TamperKinds, i \in 1..MaxBlocks, c \in ChainMenu : Tamper(k, i, c)
  \/ \E k \in RootIds : Deserialize(k)
  \/ Quiet /\ GetThirdPartyRequest
  \/ \E i \in ExtIds, c \in ChainMenu : CreateBlock(i, c)
  \/ \E i \in ExtIds : AppendThirdPartyBlock(i)

SpecChain == Init /\ [][NextChain]_vars

\* the third party answered the request twice (a request can be read from its
\* bytes any number of times): the holder uses one block and keeps the other
AppendThirdPartyBlockOfTwo(i) ==
  /\ tok # None
  /\ tpb # None
  /\ block_count(tok[1]) < MaxBlocks
  /\ rng < MaxRng
  /\ LET r == append_third_party(tok[1], PublicOf(ExtKey(i)), tpb[1], rng)
     IN /\ tok' = IF r.ret.ok THEN Some(r.ret.val) ELSE Some(r.self)
        /\ last' = Last("appendThirdPartyBlock", r.ret, tok[1], r.self,
                        [lineage |-> ghost.tok, bound |-> ghost.tpbState, block |-> tpb[1],
                         key |-> PublicOf(ExtKey(i))])
        /\ ghost' = [ghost EXCEPT !.tok.third = IF r.ret.ok THEN @ + 1 ELSE @]
  /\ rng' = rng + 1
  /\ UNCHANGED <<builder, keyVars, authVars, wire, req, tpb>>

\* the third party serializes its block and the holder reads it back; the block
\* the holder already has stays in its hands
TransmitBlock(enc, misread) ==
  /\ tpb # None
  /\ last.op \notin {"blockFromBytes", "blockFromBase64"}
  /\ LET r == IF enc = "bytes"
              THEN ThirdPartyBlock_from_bytes(ThirdPartyBlock_to_bytes(tpb[1]).val, misread)
              ELSE ThirdPartyBlock_from_base64(ThirdPartyBlock_to_base64(tpb[1]).val, misread)
     IN last' = Last(IF enc = "bytes" THEN "blockFromBytes" ELSE "blockFromBase64",
                     r, tpb[1], <<>>, misread)
  /\ UNCHANGED <<builder, keyVars, rng, tok, authVars, wire, req, tpb, ghost>>

\* the third-party protocol over several tokens: the token may be replaced or
\* advanced while a request or a block is outstanding
NextThird ==
  \/ \E k \in RootIds, c \in ChainMenu : Build(k, c)
  \/ \E c \in ChainMenu : AppendBlock(c)
  \/ SealToken
  \/ GetThirdPartyRequest
  \/ \E i \in ExtIds, c \in ChainMenu : CreateBlock(i, c)
  \/ \E i \in ExtIds : AppendThirdPartyBlock(i)
  \/ \E e \in {"bytes", "base64"}, m \in BOOLEAN : TransmitBlock(e, m)
  \/ \E i \in ExtIds : AppendThirdPartyBlockOfTwo(i)

SpecThird == Init /\ [][NextThird]_vars

\* ------------------------------------------------------------------
\* Properties of the token chain
Sealed(t) == t.container.proof.sealed
SameObservables(a, b) ==
  /\ block_count(a) = block_count(b)
  /\ revocation_identifiers(a) = revocation_identifiers(b)
  /\ \A i \in 0..(block_count(a) - 1) :
       block_source(a, i) = block_source(b, i)
TokenOps == {"appendBlock", "appendThirdPartyBlock", "sealToken", "getAuthorizer",
             "getThirdPartyRequest"}

\* C5: once sealToken has succeeded on a token, the token it returned, and every
\* token obtained from it by serialization and deserialization, is sealed and
\* keeps the block count it had when it was sealed; every later appendBlock and
\* every later sealToken on it fails and returns no token.
C5_SealingPermanent ==
  /\ (tok # None /\ ghost.tok.sealedAt > 0) =>
       /\ Sealed(tok[1])
       /\ block_count(tok[1]) = ghost.tok.sealedAt
  /\ (last.op \in {"appendBlock", "sealToken"} /\ last.aux.sealedAt > 0) =>
       /\ ~last.ret.ok
       /\ last.ret.val = <<>>
       /\ tok = Some(last.before)

\* a sealed token that went through bytes and back refuses a block
C5_Witness ==
  /\ last.op = "appendBlock"
  /\ last.aux.sealedAt = 2
  /\ Sealed(last.before)
  /\ ~last.ret.ok
  /\ last.ret.err.kind = "AppendOnSealed"
  /\ last.aux.fromWire

\* C6: a token made by build followed by n successful appendBlock calls has
\* 1 + n blocks, and its serialization verifies under the public key of the
\* root key it was built with.
C6_BlockCount ==
  /\ (tok # None /\ ghost.tok.third = 0) =>
       /\ block_count(tok[1]) = 1 + ghost.tok.appends
       /\ from_bytes(to_bytes(tok[1]).val, PublicOf(RootKey(ghost.tok.root))).ok
       /\ from_base64(to_base64(tok[1]).val, PublicOf(RootKey(ghost.tok.root))).ok
  /\ (last.op = "build" /\ last.ret.ok) => block_count(last.ret.val) = 1
  /\ (last.op = "appendBlock" /\ last.ret.ok) =>
       block_count(last.ret.val) = block_count(last.before) + 1

C6_Witness ==
  /\ tok # None
  /\ ghost.tok.third = 0
  /\ ghost.tok.appends = 2
  /\ block_count(tok[1]) = 3
  /\ last.op = "fromBytes"
  /\ last.ret.ok
  /\ last.aux = ghost.tok.root

\* C7: appendBlock, appendThirdPartyBlock, sealToken, getAuthorizer and
\* getThirdPartyRequest leave the token they are called on as it was, whether
\* they succeed or fail: same value, same observable state, same bytes.
C7_TokenImmutable ==
  last.op \in TokenOps =>
    /\ last.after = last.before
    /\ SameObservables(last.after, last.before)
    /\ Sealed(last.after) = Sealed(last.before)
    /\ to_bytes(last.after) = to_bytes(last.before)

C7_Witness ==
  /\ last.op = "appendBlock"
  /\ last.ret.ok
  /\ last.ret.val # last.before
  /\ block_count(last.ret.val) = 2
  /\ block_count(last.after) = 1

C7_WitnessThirdParty ==
  /\ last.op = "appendThirdPartyBlock"
  /\ last.ret.ok
  /\ last.ret.val # last.before
  /\ last.after = last.before

\* the bytes handed to the last fromBytes / fromBase64 are exactly what the
\* source token serialized to, and the key is the root key of its lineage
Untouched ==
  /\ last.op \in {"fromBytes", "fromBase64"}
  /\ last.after.wireSrc # None
  /\ last.before.data = IF last.op = "fromBytes" THEN to_bytes(last.after.wireSrc[1]).val
                        ELSE to_base64(last.after.wireSrc[1]).val
RightRoot == last.aux = last.after.wire.root

\* C8: deserializing the unaltered serialization of a token (bytes or base 64)
\* with the root public key succeeds and gives a token with the same block
\* count, the same revocation identifiers and the same source for every block.
C8_RoundTrip ==
  (Untouched /\ RightRoot) =>
    /\ last.ret.ok
    /\ tok = Some(last.ret.val)
    /\ SameObservables(last.ret.val, last.after.wireSrc[1])
    /\ Sealed(last.ret.val) = Sealed(last.after.wireSrc[1])

C8_Witness ==
  /\ Untouched
  /\ RightRoot
  /\ last.op = "fromBase64"
  /\ last.ret.ok
  /\ last.after.wire.third = 1
  /\ last.after.wire.sealedAt = 2
  /\ Len(revocation_identifiers(last.ret.val)) = 2

C8_WitnessBytes ==
  /\ Untouched
  /\ RightRoot
  /\ last.op = "fromBytes"
  /\ last.ret.ok
  /\ block_count(last.ret.val) = 3

\* C9: deserialization is all or nothing: bytes that differ from what the
\* token serialized to (a block's signed content, signature or next key, the
\* proof, the count, the version, a dropped block), or a root key other than
\* the one the token was built with, give an error and no token.
C9_AllOrNothing ==
  (last.op \in {"fromBytes", "fromBase64"} /\ (~Untouched \/ ~RightRoot)) =>
    /\ ~last.ret.ok
    /\ last.ret.val = <<>>

\* the first block of two is intact and verifies, the second one is altered
C9_Witness ==
  /\ last.op = "fromBytes"
  /\ RightRoot
  /\ ~Untouched
  /\ Len(last.before.data) = 5
  /\ last.before.data[3] = to_bytes(last.after.wireSrc[1]).val[3]
  /\ last.before.data[4] # to_bytes(last.after.wireSrc[1]).val[4]
  /\ ~last.ret.ok
  /\ last.ret.err.kind = "Signature"

C9_WitnessWrongRoot ==
  /\ last.op = "fromBase64"
  /\ Untouched
  /\ ~RightRoot
  /\ ~last.ret.ok

\* C10: a third-party block made from a request of one token is refused by
\* every token whose last block differs from the one the request was taken
\* at, even one under the same root key: the call fails and returns no token.
C10_NoReplay ==
  (/\ last.op = "appendThirdPartyBlock"
   /\ last.aux.bound # None
   /\ last.aux.bound[1].state # LastBlock(last.before).next_key) =>
    /\ ~last.ret.ok
    /\ last.ret.val = <<>>

\* another token built under the same root key, offered the block with the
\* key of the party that signed it
C10_Witness ==
  /\ last.op = "appendThirdPartyBlock"
  /\ last.aux.bound # None
  /\ last.aux.bound[1].state # LastBlock(last.before).next_key
  /\ last.aux.bound[1].lineage.root = last.aux.lineage.root
  /\ last.aux.lineage.appends = 0
  /\ last.aux.bound[1].lineage.appends = 0
  /\ last.aux.key = last.aux.block.external_signature.public_key
  /\ ~Sealed(last.before)
  /\ ~last.ret.ok

\* the same block on the token it was requested from is accepted
C10_WitnessAccepted ==
  /\ last.op = "appendThirdPartyBlock"
  /\ last.aux.bound # None
  /\ last.aux.bound[1].state = LastBlock(last.before).next_key
  /\ last.ret.ok

\* ------------------------------------------------------------------
\* C11: getRevocationIdentifiers returns exactly countBlocks identifiers, the
\* i-th being the one of block i, pairwise distinct within the token, and the
\* same sequence after the token went through bytes or base 64 and back.
C11_RevocationIdentifiers ==
  tok # None =>
    LET ids == revocation_identifiers(tok[1])
        viaBytes == from_bytes(to_bytes(tok[1]).val, PublicOf(RootKey(ghost.tok.root)))
        viaB64 == from_base64(to_base64(tok[1]).val, PublicOf(RootKey(ghost.tok.root)))
    IN /\ Len(ids) = block_count(tok[1])
       /\ \A i \in 1..Len(ids) : ids[i] = <<"b64", tok[1].container.blocks[i].signature>>
       /\ \A i, j \in 1..Len(ids) : i # j => ids[i] # ids[j]
       /\ viaBytes.ok /\ revocation_identifiers(viaBytes.val) = ids
       /\ viaB64.ok /\ revocation_identifiers(viaB64.val) = ids

\* three blocks, one of them signed by a third party, two with the same content
C11_Witness ==
  /\ tok # None
  /\ block_count(tok[1]) = 3
  /\ ghost.tok.third = 1
  /\ tok[1].blocks[1] = tok[1].blocks[2]
  /\ Len(revocation_identifiers(tok[1])) = 3

\* ------------------------------------------------------------------
\* an authorizer with no token: the local content alone
NextLocal ==
  \/ NewAuthorizer
  \/ \E f \in FactMenu : AddFact(f)
  \/ \E r \in RuleMenu : AddRule(r)
  \/ \E c \in CheckMenu : AddCheck(c)
  \/ \E p \in PolicyMenu : AddPolicy(p)
  \/ \E src \in SourceMenu : AddCode(src)
  \/ Authorize

SpecLocal == Init /\ [][NextLocal]_vars

\* C12: addCode is atomic: when a statement of the source fails to parse it
\* returns an error and the authorizer is exactly as before; on success every
\* parsed fact, rule, check and policy is appended after the existing entries
\* of its list, in source order.
C12_AddCodeAtomic ==
  last.op = "addCode" =>
    /\ auth = last.after
    /\ (\E i \in 1..Len(last.aux) : last.aux[i].kind = "malformed") =>
         (~last.ret.ok /\ last.after = last.before)
    /\ (\A i \in 1..Len(last.aux) : last.aux[i].kind # "malformed") =>
         /\ last.ret.ok
         /\ last.after.token = last.before.token
         /\ last.after.facts = last.before.facts \o StatementsOf(last.aux, "fact")
         /\ last.after.rules = last.before.rules \o StatementsOf(last.aux, "rule")
         /\ last.after.checks = last.before.checks \o StatementsOf(last.aux, "check")
         /\ last.after.policies = last.before.policies \o StatementsOf(last.aux, "policy")

\* a source whose first statement parses and whose second does not, given to an
\* authorizer that already holds a policy
C12_Witness ==
  /\ last.op = "addCode"
  /\ ~last.ret.ok
  /\ last.aux[1].kind = "fact"
  /\ last.aux[2].kind = "malformed"
  /\ last.before.policies # <<>>
  /\ last.after = last.before

C12_WitnessAppended ==
  /\ last.op = "addCode"
  /\ last.ret.ok
  /\ last.before.policies # <<>>
  /\ Len(last.after.policies) = Len(last.before.policies) + 1
  /\ last.after.checks # <<>>

\* ------------------------------------------------------------------
IsThirdPartyBlock(v) == DOMAIN v = {"payload", "external_signature"}

\* C13: a third-party block survives transmission: fromBytes(toBytes(b)) and
\* fromBase64(toBase64(b)) succeed and give a ThirdPartyBlock that
\* appendThirdPartyBlock accepts on exactly the tokens and keys on which it
\* accepts b.
C13_BlockRoundTrip ==
  last.op \in {"blockFromBytes", "blockFromBase64"} =>
    /\ last.ret.ok
    /\ IsThirdPartyBlock(last.ret.val)
    /\ tok # None =>
         \A i \in ExtIds :
           append_third_party(tok[1], PublicOf(ExtKey(i)), last.ret.val, rng).ret.ok
             = append_third_party(tok[1], PublicOf(ExtKey(i)), last.before, rng).ret.ok

\* ------------------------------------------------------------------
\* builder operations
ParamValueMenu ==
  {JsValue("string", "alice"), JsValue("int", "1"), JsValue("float", "1.5")}
ScopeValueMenu ==
  {JsValue("string", <<"ed25519/", "aa">>), JsValue("string", <<"rsa/", "aa">>),
   JsValue("string", <<"ed25519/", "zz">>)}
ParamsMenu == {NoParams} \cup {[k \in {"name"} |-> v] : v \in ParamValueMenu}
ScopeParamsMenu == {NoParams} \cup {[k \in {"pk"} |-> v] : v \in ScopeValueMenu}
BuilderSourceMenu ==
  {<<Stmt("fact", F_param)>>,
   <<Stmt("fact", F_flag), Stmt("check", C_is_admin)>>,
   <<Stmt("fact", F_user), Stmt("malformed", F_user)>>}

BuilderCall(op, r, aux) ==
  /\ builder' = r.self
  /\ last' = Last(op, r.ret, builder, r.self, aux)
  /\ UNCHANGED <<rng, tok, authVars, chainVars, keyVars>>

NewBuilder ==
  /\ builder # Builder_new
  /\ builder' = Builder_new
  /\ last' = Last("newBuilder", Ok(<<>>), <<>>, <<>>, <<>>)
  /\ UNCHANGED <<rng, tok, authVars, chainVars, keyVars>>

BuilderAddFact(fact) ==
  /\ Len(builder.facts) < MaxFacts
  /\ LET r == builder_add_fact(builder, fact)
     IN BuilderCall("builder.addFact", r, [item |-> fact, aborted |-> r.aborted])

BuilderAddRule(rule) ==
  /\ Len(builder.rules) < MaxRules
  /\ LET r == builder_add_rule(builder, rule)
     IN BuilderCall("builder.addRule", r, [item |-> rule, aborted |-> r.aborted])

BuilderAddCheck(check) ==
  /\ Len(builder.checks) < MaxChecks
  /\ LET r == builder_add_check(builder, check)
     IN BuilderCall("builder.addCheck", r, [item |-> check, aborted |-> r.aborted])

BuilderAddCode(source) ==
  /\ Len(builder.facts) + CountOf(source, "fact") <= MaxFacts
  /\ Len(builder.checks) + CountOf(source, "check") <= MaxChecks
  /\ LET r == builder_add_code(builder, source)
     IN BuilderCall("builder.addCode", r, [source |-> source, aborted |-> r.aborted])

BuilderAddCodeWithParameters(source, parameters, scope_parameters) ==
  /\ Len(builder.facts) + CountOf(source, "fact") <= MaxFacts
  /\ Len(builder.checks) + CountOf(source, "check") <= MaxChecks
  /\ LET r == add_code_with_parameters(builder, source, parameters, scope_parameters)
     IN BuilderCall("addCodeWithParameters", r,
                    [source |-> source, parameters |-> parameters,
                     scope_parameters |-> scope_parameters, aborted |-> r.aborted])

\* BiscuitBuilder.build takes the builder by value: a new one is needed afterwards
BuilderBuild(root) ==
  /\ rng < MaxRng
  /\ LET r == build(builder, RootKey(root), rng)
     IN /\ tok' = IF r.ret.ok THEN Some(r.ret.val) ELSE tok
        /\ last' = Last("build", r.ret, builder, r.self, root)
  /\ ghost' = [ghost EXCEPT !.tok = [NoLineage EXCEPT !.root = root]]
  /\ builder' = Builder_new
  /\ rng' = rng + 1
  /\ UNCHANGED <<authVars, wire, req, tpb, keyVars>>

NextBuilder ==
  \/ NewBuilder
  \/ \E f \in FactMenu : BuilderAddFact(f)
  \/ \E r \in RuleMenu : BuilderAddRule(r)
  \/ \E c \in CheckMenu : BuilderAddCheck(c)
  \/ \E src \in BuilderSourceMenu : BuilderAddCode(src)
  \/ \E src \in BuilderSourceMenu, p \in ParamsMenu, sp \in ScopeParamsMenu :
       BuilderAddCodeWithParameters(src, p, sp)
  \/ tok = None /\ \E k \in RootIds : BuilderBuild(k)

SpecBuilder == Init /\ [][NextBuilder]_vars

BadParameters(parameters) ==
  \E k \in DOMAIN parameters : parameters[k].kind \notin {"bool", "int", "string"}
BadScopeParameters(scope_parameters) ==
  \E k \in DOMAIN scope_parameters :
    \/ scope_parameters[k].kind # "string"
    \/ scope_parameters[k].val[1] # "ed25519/"
    \/ scope_parameters[k].val[2] \notin ValidHex

\* C14: addCodeWithParameters, given a parameter value outside the supported
\* term kinds or a scope parameter that is not a public key ed25519/<hex>,
\* returns an error value: it does not abort, and leaves the builder unchanged.
C14_ErrorsAreValues ==
  (/\ last.op = "addCodeWithParameters"
   /\ BadParameters(last.aux.parameters) \/ BadScopeParameters(last.aux.scope_parameters)) =>
    /\ ~last.aux.aborted
    /\ ~last.ret.ok
    /\ last.after = last.before

\* with supported values the call returns, with success or with an error value
C14_ReturnsOnGoodInput ==
  (/\ last.op = "addCodeWithParameters"
   /\ ~BadParameters(last.aux.parameters)
   /\ ~BadScopeParameters(last.aux.scope_parameters)) =>
    /\ ~last.aux.aborted
    /\ ~last.ret.ok => last.after = last.before

\* ------------------------------------------------------------------
\* the facts a body of block j (numbered from 0) may match once every fact of
\* an earlier block whose scope excludes later blocks is taken away
IsLocalBlock(a, id) == Universe(a).blocks[id + 1].scope = "local"
FactsWithoutRestricted(a, j) ==
  {f.fact : f \in {g \in Saturated(a) :
                     \/ g.origin.kind = "authorizer"
                     \/ g.origin.id = j
                     \/ g.origin.id < j /\ ~IsLocalBlock(a, g.origin.id)}}
\* the same authorizer, its token's blocks without any scope restriction
Unrestricted(a) ==
  [a EXCEPT !.token = Some([a.token[1] EXCEPT
                              !.blocks = [i \in 1..Len(@) |-> [@[i] EXCEPT !.scope = "default"]]])]

AddOps == {"addFact", "addRule", "addCheck", "addPolicy", "addCode"}

\* C16: an item with an unresolved named parameter is rejected when it is
\* added to the authorizer: addFact, addRule, addCheck, addPolicy and addCode
\* fail for it, so an add call that succeeded leaves no such item in the
\* authorizer.
C16_UnresolvedRejected ==
  (last.op \in AddOps /\ last.ret.ok) => Resolved(auth)

\* the second half of C16 alone: an unresolved item the authorizer holds never
\* reaches evaluation; authorize fails on it with the parameter error
C16_NeverEvaluated ==
  (last.op = "authorize" /\ ~Resolved(last.before)) =>
    (~last.ret.ok /\ last.ret.err.kind = "MissingParameters")

\* C16 for the token builder and the block builder: the item is refused, the
\* builder is unchanged, and no builder or built token holds an unresolved item
C16_BuildersReject ==
  /\ \A i \in 1..Len(builder.facts) : builder.facts[i].missing = {}
  /\ \A i \in 1..Len(builder.rules) : builder.rules[i].missing = {}
  /\ \A i \in 1..Len(builder.checks) : builder.checks[i].missing = {}
  /\ (last.op \in {"builder.addFact", "builder.addRule", "builder.addCheck"}
        /\ last.aux.item.missing # {}) => (~last.ret.ok /\ last.after = last.before)
  /\ tok # None => \A i \in 1..Len(tok[1].blocks[1].facts) :
                      tok[1].blocks[1].facts[i].missing = {}

\* ------------------------------------------------------------------
\* key operations: a key object and a byte buffer of the caller
BufLens == {0, 31, 32, 33}
KeyObject(kind, k) == [kind |-> kind, k |-> k]

NewKeyPair(kind) ==
  /\ rng < MaxRng
  /\ LET kp == KeyPair_new(rng)
     IN key' = Some(IF kind = "public" THEN KeyObject(kind, KeyPair_public(kp))
                    ELSE KeyObject(kind, KeyPair_private(kp)))
  /\ rng' = rng + 1
  /\ last' = Last("newKeyPair", Ok(<<>>), <<>>, <<>>, kind)
  /\ UNCHANGED <<builder, tok, authVars, chainVars, buf>>

AllocBuffer(n) ==
  /\ buf' = Some([i \in 1..n |-> <<"old", i>>])
  /\ last' = Last("newBuffer", Ok(<<>>), <<>>, <<>>, n)
  /\ UNCHANGED <<builder, rng, tok, authVars, chainVars, key>>

KeyToBytes ==
  /\ key # None
  /\ buf # None
  /\ LET r == IF key[1].kind = "public" THEN PublicKey_to_bytes(key[1].k, buf[1])
              ELSE PrivateKey_to_bytes(key[1].k, buf[1])
     IN /\ buf' = Some(r.out)
        /\ last' = Last(IF key[1].kind = "public" THEN "PublicKey.toBytes"
                        ELSE "PrivateKey.toBytes", r.ret, buf[1], r.out, key[1])
  /\ UNCHANGED <<builder, rng, tok, authVars, chainVars, key>>

KeyFromBytes(kind) ==
  /\ buf # None
  /\ LET r == IF kind = "public" THEN PublicKey_from_bytes(buf[1])
              ELSE PrivateKey_from_bytes(buf[1])
     IN /\ key' = IF r.ok THEN Some(KeyObject(kind, r.val)) ELSE key
        /\ last' = Last(IF kind = "public" THEN "PublicKey.fromBytes"
                        ELSE "PrivateKey.fromBytes", r, buf[1], <<>>, kind)
  /\ UNCHANGED <<builder, rng, tok, authVars, chainVars, buf>>

NextKeys ==
  \/ \E kind \in {"public", "private"} : NewKeyPair(kind)
  \/ \E n \in BufLens : AllocBuffer(n)
  \/ KeyToBytes
  \/ \E kind \in {"public", "private"} : KeyFromBytes(kind)

SpecKeys == Init /\ [][NextKeys]_vars

\* C17: toBytes into a buffer of fewer than 32 bytes fails with an
\* invalid-key-size error carrying the buffer's length and writes nothing; into
\* a 32-byte buffer it succeeds, the buffer holds the key's 32 bytes, and
\* fromBytes of that buffer gives back the same key.
C17_KeyToBytes ==
  last.op \in {"PublicKey.toBytes", "PrivateKey.toBytes"} =>
    /\ buf = Some(last.after)
    /\ Len(last.before) < 32 =>
         /\ ~last.ret.ok
         /\ last.ret.err.kind = "InvalidKeySize"
         /\ last.ret.err.index = Len(last.before)
         /\ last.after = last.before
    /\ Len(last.before) = 32 =>
         /\ last.ret.ok
         /\ Len(last.after) = 32
         /\ last.after = lib_key_to_bytes(last.aux.k)
         /\ IF last.aux.kind = "public"
            THEN PublicKey_from_bytes(last.after) = Ok(last.aux.k)
            ELSE PrivateKey_from_bytes(last.after) = Ok(last.aux.k)

\* a 31-byte buffer is refused with its length and keeps its content
C17_Witness ==
  /\ last.op = "PublicKey.toBytes"
  /\ Len(last.before) = 31
  /\ ~last.ret.ok
  /\ last.ret.err.index = 31
  /\ buf = Some(last.before)

C17_WitnessRoundTrip ==
  /\ last.op = "PrivateKey.fromBytes"
  /\ last.ret.ok
  /\ last.before[1][1] # "old"
  /\ key = Some(KeyObject("private", last.ret.val))

\* ------------------------------------------------------------------
\* one token of a single block, holding a rule and no fact or a fact and a rule,
\* and an authorizer configured for it
B_rule == Content(<<>>, <<R_is_admin>>, <<>>, "default")
NextSat ==
  \/ \E c \in {B_rule, B_admin, B_local} : AuthBuild(c)
  \/ GetAuthorizer
  \/ \E f \in FactMenu : AddFact(f)
  \/ \E r \in RuleMenu : AddRule(r)
  \/ \E c \in CheckMenu : AddCheck(c)
  \/ \E p \in PolicyMenu : AddPolicy(p)
  \/ Authorize

SpecSat == Init /\ [][NextSat]_vars

\* a fact set is closed under the visible rules of universe u
Closed(u, S) ==
  \A r \in WorldRules(u) :
    \A b \in Bindings(r.rule.query, VisibleTo(S, r.origin, u.blocks)) :
      [origin |-> r.origin, fact |-> Ground(r.rule.head, b)] \in S

\* C18: the set authorize evaluates checks and policies against is the least
\* fixpoint: it holds every initial fact, is closed under every visible rule,
\* holds nothing beyond what the rules derive (no smaller closed set holds the
\* initial facts), and the outcome is the one this set gives.
C18_LeastFixpoint ==
  (last.op = "authorize" /\ Resolved(last.before)) =>
    LET u == Universe(last.before)
        S == Saturated(last.before)
    IN /\ WorldFacts(u) \subseteq S
       /\ Closed(u, S)
       /\ \A D \in SUBSET (S \ WorldFacts(u)) :
            D # S \ WorldFacts(u) => ~Closed(u, WorldFacts(u) \cup D)
       /\ (~last.ret.ok /\ last.ret.err.kind = "FailedChecks") <=> FailingChecks(last.before) # {}
       /\ last.ret.ok =>
            /\ last.before.policies[last.ret.val + 1].kind = "allow"
            /\ PolicyMatches(last.before, last.before.policies[last.ret.val + 1])

\* a fact that takes two rounds: the authorizer's rule gives admin_user("alice")
\* from user("alice"), the token's rule gives is_admin("alice") from it, and the
\* policy that allows matches on it
C18_Witness ==
  /\ last.op = "authorize"
  /\ Resolved(last.before)
  /\ last.before.token # None
  /\ LET u == Universe(last.before)
         once == ApplyRules(u, WorldFacts(u))
     IN /\ once # WorldFacts(u)
        /\ Saturated(last.before) # once
  /\ last.ret.ok
  /\ last.before.policies[last.ret.val + 1] = P_allow_admin

\* ------------------------------------------------------------------
\* the token the block is offered to has grown since the request was taken:
\* the block the request was taken at is no longer its last one
Advanced ==
  \E k \in 1..(Len(last.before.container.blocks) - 1) :
    last.before.container.blocks[k].next_key = last.aux.bound[1].state

\* C19: a third-party block goes stale when the token advances: made from a
\* request taken at T, it is refused by a token obtained from T by appendBlock
\* or appendThirdPartyBlock, and accepted by T itself with the third party's
\* public key, giving a token of blockCount(T) + 1 blocks.
C19_StaleBlock ==
  (last.op = "appendThirdPartyBlock" /\ last.aux.bound # None) =>
    /\ Advanced => (~last.ret.ok /\ last.ret.val = <<>>)
    /\ (/\ last.aux.bound[1].state = LastBlock(last.before).next_key
        /\ last.aux.key = last.aux.block.external_signature.public_key
        /\ ~Sealed(last.before)) =>
         /\ last.ret.ok
         /\ block_count(last.ret.val) = block_count(last.before) + 1

\* the token advanced by one appendBlock; the block is offered with the key of
\* the party that signed it
C19_Witness ==
  /\ last.op = "appendThirdPartyBlock"
  /\ last.aux.bound # None
  /\ Advanced
  /\ last.aux.lineage.appends = last.aux.bound[1].lineage.appends + 1
  /\ last.aux.key = last.aux.block.external_signature.public_key
  /\ ~Sealed(last.before)
  /\ ~last.ret.ok

C19_WitnessFresh ==
  /\ last.op = "appendThirdPartyBlock"
  /\ last.aux.bound # None
  /\ last.aux.bound[1].state = LastBlock(last.before).next_key
  /\ last.ret.ok
  /\ block_count(last.ret.val) = 3

\* the token advanced by appendThirdPartyBlock of a first block made from the
\* same request; the second one is refused
C19_WitnessAfterThirdParty ==
  /\ last.op = "appendThirdPartyBlock"
  /\ last.aux.bound # None
  /\ Advanced
  /\ last.aux.lineage.third = last.aux.bound[1].lineage.third + 1
  /\ last.aux.lineage.appends = last.aux.bound[1].lineage.appends
  /\ last.aux.key = last.aux.block.external_signature.public_key
  /\ ~last.ret.ok

\* ------------------------------------------------------------------
\* C20: authorize leaves the authorizer as it found it, whether it succeeds or
\* fails: the token and the local facts, rules, checks and policies after the
\* call are the ones before it, nothing derived is kept, and a second authorize
\* on the authorizer it leaves returns the same outcome.
C20_AuthorizeFrame ==
  last.op = "authorize" =>
    /\ last.after = last.before
    /\ auth = last.before
    /\ DOMAIN auth = {"token", "facts", "rules", "checks", "policies"}
    /\ authorize(auth).ret = last.ret
    /\ authorize(auth).self = auth

\* the same, over the steps: an authorize that follows an authorize returns
\* what the first one returned
C20_ConsecutiveCalls ==
  [][(last.op = "authorize" /\ last'.op = "authorize") =>
       (auth' = auth /\ last'.ret = last.ret)]_vars

\* a successful authorize on an authorizer with a token and local content of
\* every kind, whose evaluation derived facts
C20_Witness ==
  /\ last.op = "authorize"
  /\ last.before.token # None
  /\ last.before.facts # <<>>
  /\ last.before.rules # <<>>
  /\ last.before.checks # <<>>
  /\ last.before.policies # <<>>
  /\ Resolved(last.before)
  /\ Saturated(last.before) # WorldFacts(Universe(last.before))
  /\ last.ret.ok

\* a failing authorize on an authorizer with a token and local content
C20_WitnessFailing ==
  /\ last.op = "authorize"
  /\ last.before.token # None
  /\ last.before.facts # <<>>
  /\ last.before.policies # <<>>
  /\ ~last.ret.ok
  /\ last.ret.err.kind = "FailedChecks"

\* ------------------------------------------------------------------
\* several tokens offered to one authorizer: the holder obtains another token
\* while the authorizer is in use
MaxTokens == 3
BuildOther(content) ==
  /\ last.op # "authorizeAttenuated"
  /\ tok # None
  /\ rng < MaxTokens
  /\ LET r == build(content, RootKey(1), rng)
     IN /\ tok' = Some(r.ret.val)
        /\ last' = Last("build", r.ret, content, r.self, <<>>)
  /\ rng' = rng + 1
  /\ UNCHANGED <<builder, keyVars, authVars, chainVars>>

NextTokens ==
  \/ \E c \in {B_rule, B_admin, B_check} : AuthBuild(c) \/ BuildOther(c)
  \/ NewAuthorizer
  \/ GetAuthorizer
  \/ AddToken
  \/ \E f \in FactMenu : AddFact(f)
  \/ \E r \in RuleMenu : AddRule(r)
  \/ \E c \in CheckMenu : AddCheck(c)
  \/ \E p \in PolicyMenu : AddPolicy(p)
  \/ Authorize

SpecTokens == Init /\ [][NextTokens]_vars

\* the authorizer that holds only the token given last and the local content of a
CurrentOnly(a) ==
  [blocks |-> IF tokenLog = <<>> THEN <<>> ELSE tokenLog[Len(tokenLog)].blocks,
   facts |-> a.facts, rules |-> a.rules, checks |-> a.checks, policies |-> a.policies]

\* C21: an authorizer holds at most one token. The token it holds is the one
\* given last (none if none was given); addToken changes nothing but the token;
\* authorize returns what the blocks of the token given last and the local
\* content give, the blocks of tokens given earlier adding nothing, and what
\* the local content alone gives when no token was given.
C21_OneToken ==
  /\ auth.token = (IF tokenLog = <<>> THEN None ELSE Some(tokenLog[Len(tokenLog)]))
  /\ last.op = "addToken" =>
       /\ last.after = [last.before EXCEPT !.token = Some(last.aux)]
       /\ auth = last.after
  /\ last.op = "authorize" =>
       /\ Universe(last.before) = CurrentOnly(last.before)
       /\ Resolved(last.before) => last.ret = lib_authorize(CurrentOnly(last.before))
       /\ ~Resolved(last.before) => ~last.ret.ok

\* two different tokens were given; with the blocks of the first the policy
\* that allows would match, and authorize, holding the second, does not allow
C21_Witness ==
  /\ last.op = "authorize"
  /\ Len(tokenLog) >= 2
  /\ tokenLog[1] # tokenLog[Len(tokenLog)]
  /\ Resolved(last.before)
  /\ last.before.facts # <<>>
  /\ lib_authorize([CurrentOnly(last.before) EXCEPT !.blocks = tokenLog[1].blocks]).ok
  /\ ~last.ret.ok

\* no token was given: the local content alone decides
C21_WitnessNoToken ==
  /\ last.op = "authorize"
  /\ tokenLog = <<>>
  /\ last.before.facts # <<>>
  /\ last.before.policies # <<>>
  /\ last.ret.ok

\* addToken on an authorizer that holds a token and local content
C21_WitnessAddToken ==
  /\ last.op = "addToken"
  /\ last.before.token # None
  /\ last.before.token # Some(last.aux)
  /\ last.before.facts # <<>>
  /\ last.before.checks # <<>>
====
